---- MODULE Spec2Model ----
(***************************************************************************)
(* Race engine of nemesis_kart.py: the Racer and Game classes and the      *)
(* console commands that reach into them (step, status, rel).              *)
(*                                                                         *)
(* Positions and speeds are floats in the source.  The only non-integer    *)
(* arithmetic is base_speed / 2 (banana placement) and penalty * 1.5       *)
(* (Shell-Shocked), so every distance of the model is kept in HALF track   *)
(* units: a quantity x of the source is the integer 2 * x here, written    *)
(* H(x).  Python's None is the string "None".                              *)
(***************************************************************************)
EXTENDS Integers, Sequences, FiniteSets, TLC

\* ---------------------------------------------------------------- CONFIG
\* Distances of the configuration, scaled down so that a race is short.
TrackLength == 50
ItemBoxSpacing == 20
CatchUpThreshold == 15
\* The console's rel command is issued up to this step of the race.
MaxRelStep == 0
\* The console's give command is issued up to this step of the race.
MaxGiveStep == 2

base_speed_min == 8
base_speed_max == 12
boost_speed_bonus == 15
boost_duration == 3
shell_hit_speed_penalty == -20
shell_hit_duration == 2
banana_hit_speed_penalty == -15
banana_hit_duration == 3
\* item chances in thousandths (0.4, 0.3, 0.2, 0.1)
item_chance_boost == 400
item_chance_green_shell == 300
item_chance_red_shell == 200
item_chance_banana == 100
nemesis_hit_relationship_penalty == -3
nemesis_overtake_relationship_penalty == -1
nemesis_finish_ahead_penalty == -2
nemesis_targeting_threshold == -5
nemesis_trait_threshold == 3

\* Game.config, the CONFIG dictionary: the distances a race is run with
VARIABLE config

H(x) == 2 * x
track_length == H(config.track_length)
item_box_spacing == H(config.item_box_spacing)
catch_up_assist_threshold == H(config.catch_up_assist_threshold)
\* catch_up_item_boost_mult is 1.5: x * 1.5 is (x * 3) \div 2 on thousandths
catch_up_item_boost_mult(x) == (x * 3) \div 2

\* ---------------------------------------------------------------- names
BOOST == "Boost"
GREEN_SHELL == "Green Shell"
RED_SHELL == "Red Shell"
BANANA == "Banana"
Items == {BOOST, GREEN_SHELL, RED_SHELL, BANANA}
HitItems == {GREEN_SHELL, RED_SHELL, BANANA}

AGGRESSIVE == "Aggressive"
SHELL_SHOCKED == "Shell-Shocked"
TARGET_FIXATED == "Target Fixated"

None == "None"
\* the attribute last_hit_by_item before apply_hit first assigns it
Unset == "Unset"

\* Game.racers in insertion (= iteration) order
player_name == "Player"
RacerOrder == <<"Player", "CPU_1", "CPU_2">>
Names == {RacerOrder[i] : i \in 1..Len(RacerOrder)}
\* a name that is no key of Game.racers
Nobody == "Nobody"

Max(a, b) == IF a >= b THEN a ELSE b
Min(a, b) == IF a <= b THEN a ELSE b

\* d[k] = d.get(k, 0) + 1
Incr(d, k) == [x \in DOMAIN d \cup {k} |-> IF x = k THEN (IF k \in DOMAIN d THEN d[k] ELSE 0) + 1 ELSE d[x]]

\* ---------------------------------------------------------------- Racer
NewRacer(name, speed) ==
  [ name |-> name,
    is_player |-> (name = player_name),
    position |-> 0,
    base_speed |-> H(speed),
    current_item |-> None,
    item_uses |-> [i \in Items |-> 0],
    times_hit_by |-> [i \in HitItems |-> 0],
    boost_timer |-> 0,
    hit_timer |-> 0,
    last_hit_by |-> None,
    last_hit_by_item |-> Unset,
    relationships |-> [o \in Names \ {name} |-> 0],
    traits |-> {},
    hit_by_count |-> [o \in Names \ {name} |-> 0],
    hit_others_count |-> [o \in Names \ {name} |-> 0],
    next_item_box_pos |-> item_box_spacing ]

\* update_relationship with the lower clamp forgotten
update_relationship_NoFloor(r, other, change) ==
  IF other \in DOMAIN r.relationships
    THEN [r EXCEPT !.relationships[other] = Min(10, @ + change)]
    ELSE r

\* Racer.update_relationship on the racer record r
update_relationship(r, other, change) ==
  IF other \in DOMAIN r.relationships
    THEN [r EXCEPT !.relationships[other] = Max(-10, Min(10, @ + change))]
    ELSE r

\* check_trait_conditions granting Aggressive and Shell-Shocked only above
\* the threshold
check_trait_conditions_Strict(r) ==
  LET offensive_uses == r.item_uses[GREEN_SHELL] + r.item_uses[RED_SHELL]
      shell_hits == r.times_hit_by[GREEN_SHELL] + r.times_hit_by[RED_SHELL]
      has_strong_negative ==
        \E o \in DOMAIN r.relationships : r.relationships[o] <= nemesis_targeting_threshold
      t1 == IF offensive_uses > nemesis_trait_threshold
              THEN r.traits \cup {AGGRESSIVE} ELSE r.traits
      t2 == IF shell_hits > nemesis_trait_threshold
              THEN t1 \cup {SHELL_SHOCKED} ELSE t1
      t3 == IF has_strong_negative THEN t2 \cup {TARGET_FIXATED}
                                   ELSE t2 \ {TARGET_FIXATED}
  IN [r EXCEPT !.traits = t3]

\* check_trait_conditions never taking Target Fixated away
check_trait_conditions_KeepsFixated(r) ==
  LET offensive_uses == r.item_uses[GREEN_SHELL] + r.item_uses[RED_SHELL]
      shell_hits == r.times_hit_by[GREEN_SHELL] + r.times_hit_by[RED_SHELL]
      has_strong_negative ==
        \E o \in DOMAIN r.relationships : r.relationships[o] <= nemesis_targeting_threshold
      t1 == IF offensive_uses >= nemesis_trait_threshold
              THEN r.traits \cup {AGGRESSIVE} ELSE r.traits
      t2 == IF shell_hits >= nemesis_trait_threshold
              THEN t1 \cup {SHELL_SHOCKED} ELSE t1
      t3 == IF has_strong_negative THEN t2 \cup {TARGET_FIXATED} ELSE t2
  IN [r EXCEPT !.traits = t3]

\* Racer.check_trait_conditions
check_trait_conditions(r) ==
  LET offensive_uses == r.item_uses[GREEN_SHELL] + r.item_uses[RED_SHELL]
      shell_hits == r.times_hit_by[GREEN_SHELL] + r.times_hit_by[RED_SHELL]
      has_strong_negative ==
        \E o \in DOMAIN r.relationships : r.relationships[o] <= nemesis_targeting_threshold
      t1 == IF offensive_uses >= nemesis_trait_threshold
              THEN r.traits \cup {AGGRESSIVE} ELSE r.traits
      t2 == IF shell_hits >= nemesis_trait_threshold
              THEN t1 \cup {SHELL_SHOCKED} ELSE t1
      t3 == IF has_strong_negative THEN t2 \cup {TARGET_FIXATED}
                                   ELSE t2 \ {TARGET_FIXATED}
  IN [r EXCEPT !.traits = t3]

\* ---------------------------------------------------------------- Game.get_state
IndexOf(n) == CHOOSE i \in 1..Len(RacerOrder) : RacerOrder[i] = n

\* sorted(..., key=position, reverse=True): descending, stable, so racers
\* with equal positions keep their iteration order.  pos maps names to positions.
SortedNames(pos) ==
  LET before(m, n) == pos[m] > pos[n] \/ (pos[m] = pos[n] /\ IndexOf(m) < IndexOf(n))
      rank(n) == 1 + Cardinality({m \in Names : before(m, n)})
  IN [i \in 1..Len(RacerOrder) |-> CHOOSE n \in Names : rank(n) = i]

PositionsOf(rs) == [n \in Names |-> rs[n].position]

\* the snapshot run_step takes: positions is the list of (name, position)
\* tuples, sorted; racers, obstacles and pending_events are the live objects
\* and are threaded through the operators below instead.
get_state(rs) ==
  LET sorted_racers == SortedNames(PositionsOf(rs))
  IN [ positions |-> [i \in 1..Len(sorted_racers) |->
                        <<sorted_racers[i], rs[sorted_racers[i]].position>>] ]

\* ---------------------------------------------------------------- Racer.decide_action
close_behind_range == 50

\* list.index: the first index holding the tuple
my_pos_index(r, gs) ==
  CHOOSE i \in 1..Len(gs.positions) :
    /\ gs.positions[i] = <<r.name, r.position>>
    /\ \A j \in 1..(i - 1) : gs.positions[j] # <<r.name, r.position>>

\* the entries AFTER the racer's own in the descending list that have a
\* greater position
racers_ahead(r, gs) ==
  LET my == my_pos_index(r, gs)
  IN {gs.positions[i][1] : i \in {j \in (my + 1)..Len(gs.positions) : gs.positions[j][2] > r.position}}

\* the entries BEFORE the racer's own that have a smaller position
racers_behind(r, gs) ==
  LET my == my_pos_index(r, gs)
  IN {gs.positions[i][1] : i \in {j \in 1..(my - 1) : gs.positions[j][2] < r.position}}

RelGet(r, name) == IF name \in DOMAIN r.relationships THEN r.relationships[name] ELSE 0

\* min(strong_negative_targets, key=relationship): the first minimum in
\* iteration order, or None
nemesis_target(r) ==
  LET strong == {n \in Names : RelGet(r, n) <= nemesis_targeting_threshold}
  IN IF strong = {} THEN None
     ELSE CHOOSE n \in strong :
            \A m \in strong : \/ r.relationships[n] < r.relationships[m]
                              \/ (r.relationships[n] = r.relationships[m] /\ IndexOf(n) <= IndexOf(m))

\* The set of (action, target) pairs decide_action can return; more than one
\* where random.choice / random.random decides.
decide_action(r, rs, gs) ==
  LET ahead == racers_ahead(r, gs)
      behind == racers_behind(r, gs)
      nem == nemesis_target(r)
      drive == <<"drive", None>>
      closest == CHOOSE n \in ahead : \A m \in ahead : rs[n].position <= rs[m].position
      close_behind == {b \in behind : r.position - rs[b].position < H(close_behind_range)}
  IN IF r.is_player THEN {<<None, None>>}
     ELSE IF r.current_item = None THEN {drive}
     ELSE IF r.current_item = BOOST THEN
            IF r.boost_timer <= 0 THEN {<<"use_item", None>>} ELSE {drive}
     ELSE IF r.current_item = GREEN_SHELL THEN
            IF nem # None /\ nem \in ahead THEN {<<"use_item", nem>>}
            ELSE IF ahead # {} THEN {<<"use_item", t>> : t \in ahead}
            ELSE {drive}
     ELSE IF r.current_item = RED_SHELL THEN
            IF nem # None /\ nem \in ahead THEN {<<"use_item", nem>>}
            ELSE IF ahead # {} THEN {<<"use_item", closest>>}
            ELSE {drive}
     ELSE \* BANANA
            IF nem # None /\ nem \in close_behind THEN {<<"use_item", None>>}
            ELSE IF close_behind # {} THEN {<<"use_item", None>>, drive}
            ELSE IF AGGRESSIVE \in r.traits THEN {<<"use_item", None>>, drive}
            ELSE {drive}

\* ---------------------------------------------------------------- Racer.get_item
\* whether get_item applies the catch-up bonus for racer r (already moved)
catch_up_applies(r, gs) ==
  LET leader_pos == IF Len(gs.positions) > 0 THEN gs.positions[Len(gs.positions)][2]
                                              ELSE r.position
  IN leader_pos - r.position > catch_up_assist_threshold

\* the items random.random() in [0, 1) can select, in thousandths
DrawableItems(r, gs) ==
  LET boost_chance == IF catch_up_applies(r, gs)
                        THEN catch_up_item_boost_mult(item_chance_boost)
                        ELSE item_chance_boost
      a == boost_chance
      b == a + item_chance_green_shell
      c == b + item_chance_red_shell
  IN   (IF a > 0 THEN {BOOST} ELSE {})
  \cup (IF a < 1000 /\ b > a THEN {GREEN_SHELL} ELSE {})
  \cup (IF b < 1000 /\ c > b THEN {RED_SHELL} ELSE {})
  \cup (IF c < 1000 THEN {BANANA} ELSE {})

get_item(r, item) == [r EXCEPT !.current_item = item]

\* ---------------------------------------------------------------- Racer.update_step
\* the hit forgotten before the penalty of the last stunned step is computed
StatusStep_ClearsFirst(r) ==
  LET item == IF r.hit_timer = 1 THEN None ELSE r.last_hit_by_item
      penalty == IF item = GREEN_SHELL \/ item = RED_SHELL THEN shell_hit_speed_penalty
                 ELSE IF item = BANANA THEN banana_hit_speed_penalty
                 ELSE 0
      penalty2 == IF SHELL_SHOCKED \in r.traits THEN 3 * penalty ELSE H(penalty)
  IN IF r.hit_timer > 0 THEN
       [ speed |-> r.base_speed + penalty2,
         r |-> IF r.hit_timer - 1 = 0
                 THEN [r EXCEPT !.hit_timer = 0, !.last_hit_by = None, !.last_hit_by_item = None]
                 ELSE [r EXCEPT !.hit_timer = @ - 1] ]
     ELSE IF r.boost_timer > 0 THEN
       [ speed |-> r.base_speed + H(boost_speed_bonus),
         r |-> [r EXCEPT !.boost_timer = @ - 1] ]
     ELSE [ speed |-> r.base_speed, r |-> r ]

\* the speed of this step and the timers after it
StatusStep(r) ==
  LET item == r.last_hit_by_item
      penalty == IF item = GREEN_SHELL \/ item = RED_SHELL THEN shell_hit_speed_penalty
                 ELSE IF item = BANANA THEN banana_hit_speed_penalty
                 ELSE 0
      \* penalty *= 1.5 for Shell-Shocked; in half units 2 * 1.5 = 3
      penalty2 == IF SHELL_SHOCKED \in r.traits THEN 3 * penalty ELSE H(penalty)
  IN IF r.hit_timer > 0 THEN
       [ speed |-> r.base_speed + penalty2,
         r |-> IF r.hit_timer - 1 = 0
                 THEN [r EXCEPT !.hit_timer = 0, !.last_hit_by = None, !.last_hit_by_item = None]
                 ELSE [r EXCEPT !.hit_timer = @ - 1] ]
     ELSE IF r.boost_timer > 0 THEN
       [ speed |-> r.base_speed + H(boost_speed_bonus),
         r |-> [r EXCEPT !.boost_timer = @ - 1] ]
     ELSE [ speed |-> r.base_speed, r |-> r ]

\* the speed left unclamped
ClampSpeed_NoMin(s) == s

\* the speed clamped at 0 instead of 1
ClampSpeed_Zero(s) == Max(0, s)

\* current_speed = max(1, current_speed)
ClampSpeed(s) == Max(H(1), s)

\* the racer after status effects and movement, before the item box check
Moved(r) ==
  LET st == StatusStep(r)
  IN [st.r EXCEPT !.position = @ + ClampSpeed(st.speed)]

\* whether update_step calls get_item
DrawsItem(r) ==
  LET m == Moved(r) IN m.position >= m.next_item_box_pos /\ m.current_item = None

\* update_step moving the threshold on only when an item is picked up
update_step_AdvancesOnDraw(r, draw) ==
  LET m == Moved(r)
  IN IF m.position >= m.next_item_box_pos /\ m.current_item = None
       THEN [get_item(m, draw) EXCEPT !.next_item_box_pos = @ + item_box_spacing]
       ELSE m

\* update_step; draw is the item get_item selects when it is called
update_step(r, draw) ==
  LET m == Moved(r)
  IN IF m.position >= m.next_item_box_pos
       THEN [(IF m.current_item = None THEN get_item(m, draw) ELSE m)
               EXCEPT !.next_item_box_pos = @ + item_box_spacing]
       ELSE m

\* ---------------------------------------------------------------- Racer.use_item
\* the item counted as used but left in the slot
Consume_KeepsSlot(r) == [r EXCEPT !.item_uses[r.current_item] = @ + 1]

\* item_used = self.current_item; self.current_item = None; item_uses[item_used] += 1
Consume(r) == [r EXCEPT !.current_item = None, !.item_uses[r.current_item] = @ + 1]

\* a Red Shell's event emitted for any target that exists
ShellTarget_NoAheadCheck(w, n, item_used, target_name) == target_name \in Names

\* whether a shell's hit event is emitted: target_racer exists and, for a
\* Red Shell, is ahead of the racer n that uses it
ShellTarget(w, n, item_used, target_name) ==
  /\ target_name \in Names
  /\ item_used = RED_SHELL => w.rs[target_name].position > w.rs[n].position

\* w is the world a step works on: the racers (rs), game_state['pending_events']
\* (events) and Game.obstacles (obstacles).
\* a shell emitting nothing when its target is stunned at the time of use
EmitHit_SkipsImmune(w, n, r1, item_used, target_name) ==
  IF w.rs[target_name].hit_timer > 0
    THEN [w EXCEPT !.rs[n] = r1]
    ELSE [w EXCEPT !.rs[n] = [r1 EXCEPT !.hit_others_count = Incr(@, target_name)],
                   !.events = Append(@, [attacker |-> n, target |-> target_name, item |-> item_used])]

\* the hit event appended to pending_events and the attacker's
\* hit_others_count incremented; r1 is the attacker after Consume
EmitHit(w, n, r1, item_used, target_name) ==
  [w EXCEPT !.rs[n] = [r1 EXCEPT !.hit_others_count = Incr(@, target_name)],
            !.events = Append(@, [attacker |-> n, target |-> target_name, item |-> item_used])]

\* the Boost's timer started one step short
StartBoost_Short(r1) == [r1 EXCEPT !.boost_timer = boost_duration - 1]

\* self.boost_timer = CONFIG["boost_duration"]
StartBoost(r1) == [r1 EXCEPT !.boost_timer = boost_duration]

\* the banana placed ahead of the racer
banana_pos_Ahead(r) == r.position + (r.base_speed \div 2)

\* banana_pos = self.position - (self.base_speed / 2); the racer has not
\* moved yet in this step
banana_pos(r) == r.position - (r.base_speed \div 2)

\* use_item past its empty-slot check.  Returns the world and the return value.
UseHeld(w, n, target_name) ==
  LET r == w.rs[n]
      item_used == r.current_item
      r1 == Consume(r)
  IN IF item_used = BOOST THEN
       [w |-> [w EXCEPT !.rs[n] = StartBoost(r1)], ret |-> TRUE]
     ELSE IF item_used = GREEN_SHELL \/ item_used = RED_SHELL THEN
       IF ShellTarget(w, n, item_used, target_name)
         THEN [w |-> EmitHit(w, n, r1, item_used, target_name), ret |-> TRUE]
         ELSE [w |-> [w EXCEPT !.rs[n] = r1], ret |-> TRUE]
     ELSE \* BANANA
       [w |-> [w EXCEPT !.rs[n] = r1,
                        !.obstacles = Append(@, [type |-> BANANA, position |-> banana_pos(r), owner |-> n])],
        ret |-> TRUE]

\* use_item reporting a use although the slot was empty
use_item_EmptyReturnsTrue(w, n, target_name) ==
  IF w.rs[n].current_item = None THEN [w |-> w, ret |-> TRUE] ELSE UseHeld(w, n, target_name)

use_item(w, n, target_name) ==
  IF w.rs[n].current_item = None THEN [w |-> w, ret |-> FALSE] ELSE UseHeld(w, n, target_name)

\* ---------------------------------------------------------------- Racer.apply_hit
\* every hit given the banana's duration
HitDuration_AlwaysBanana(item_type) == banana_hit_duration

\* Set hit duration based on item
HitDuration(item_type) ==
  IF item_type = GREEN_SHELL \/ item_type = RED_SHELL THEN shell_hit_duration
  ELSE banana_hit_duration

\* apply_hit past its immunity check
LandHit(r, attacker_name, item_type) ==
  LET r1 == [r EXCEPT !.boost_timer = 0,
                      !.last_hit_by = attacker_name,
                      !.last_hit_by_item = item_type,
                      !.times_hit_by[item_type] = @ + 1]
      r2 == IF attacker_name # None
              THEN [r1 EXCEPT !.hit_by_count = Incr(@, attacker_name)] ELSE r1
      r3 == [r2 EXCEPT !.hit_timer = HitDuration(item_type)]
      r4 == IF attacker_name # None
              THEN update_relationship(r3, attacker_name, nemesis_hit_relationship_penalty)
              ELSE r3
  IN check_trait_conditions(r4)

\* apply_hit without the immunity check
apply_hit_NoImmunity(r, attacker_name, item_type) == LandHit(r, attacker_name, item_type)

apply_hit(r, attacker_name, item_type) ==
  IF r.hit_timer > 0 THEN r ELSE LandHit(r, attacker_name, item_type)

\* ---------------------------------------------------------------- Game.run_step
\* 2. Execute Actions & Update Positions, racers i..N in iteration order.
\* w also carries what the step did, per racer: used (use_item's return
\* value), slot_after_use (the slot when use_item returned) and drew.
RECURSIVE ExecuteActions(_, _, _, _)
ExecuteActions(i, w, actions, draw) ==
  IF i > Len(RacerOrder) THEN w
  ELSE
    LET n == RacerOrder[i]
        calls_use == actions[n][1] = "use_item"
        u == IF calls_use THEN use_item(w, n, actions[n][2]) ELSE [w |-> w, ret |-> FALSE]
        r == u.w.rs[n]
        w2 == [u.w EXCEPT !.rs[n] = update_step(r, draw[n]),
                          !.used[n] = u.ret,
                          !.slot_after_use[n] = IF calls_use THEN r.current_item ELSE "no call",
                          !.drew[n] = DrawsItem(r)]
    IN ExecuteActions(i + 1, w2, actions, draw)

\* 3. Process Pending Events (Hits), events k.. in order.  Every apply_hit
\* call is recorded in w.hits with the target before and after it.
HitRecord(target, attacker, item, before, after) ==
  [target |-> target, attacker |-> attacker, item |-> item, before |-> before, after |-> after]

RECURSIVE ProcessEvents(_, _)
ProcessEvents(k, w) ==
  IF k > Len(w.events) THEN w
  ELSE
    LET e == w.events[k]
        before == w.rs[e.target]
        after == apply_hit(before, e.attacker, e.item)
    IN ProcessEvents(k + 1,
         [w EXCEPT !.rs[e.target] = after,
                   !.hits = Append(@, HitRecord(e.target, e.attacker, e.item, before, after))])

\* 4. Check Obstacle Collisions: whether the racer moved over the obstacle
Crosses(last_pos, current_pos, obs) ==
  Min(last_pos, current_pos) < obs.position /\ obs.position <= Max(last_pos, current_pos)

\* the inner loop keeping the last racer that qualifies instead of the first
RECURSIVE FirstHit_Last(_, _, _, _)
FirstHit_Last(i, rs, last_pos, obs) ==
  IF i > Len(RacerOrder) THEN None
  ELSE LET n == RacerOrder[i]
           later == FirstHit_Last(i + 1, rs, last_pos, obs)
       IN IF later # None THEN later
          ELSE IF Crosses(last_pos[n], rs[n].position, obs) /\ rs[n].hit_timer <= 0
            THEN n
            ELSE None

\* the inner loop over racers_to_check i..N for one obstacle: the name of
\* the racer that is hit, or None
RECURSIVE FirstHit(_, _, _, _)
FirstHit(i, rs, last_pos, obs) ==
  IF i > Len(RacerOrder) THEN None
  ELSE LET n == RacerOrder[i]
       IN IF Crosses(last_pos[n], rs[n].position, obs) /\ rs[n].hit_timer <= 0
            THEN n
            ELSE FirstHit(i + 1, rs, last_pos, obs)

\* the outer loop over the obstacles k.. of the list; w.kept collects
\* new_obstacles, w.collisions records each obstacle with the hit timers it
\* was resolved against
RECURSIVE CheckObstacles(_, _, _, _)
CheckObstacles(k, obs_list, last_pos, w) ==
  IF k > Len(obs_list) THEN [w EXCEPT !.obstacles = w.kept]
  ELSE
    LET obs == obs_list[k]
        victim == FirstHit(1, w.rs, last_pos, obs)
        col == [obs |-> obs, timers |-> [n \in Names |-> w.rs[n].hit_timer], hit |-> victim]
        before == w.rs[victim]
        after == apply_hit(before, obs.owner, obs.type)
    IN IF victim = None
         THEN CheckObstacles(k + 1, obs_list, last_pos,
                [w EXCEPT !.collisions = Append(@, col), !.kept = Append(@, obs)])
         ELSE CheckObstacles(k + 1, obs_list, last_pos,
                [w EXCEPT !.rs[victim] = after,
                          !.collisions = Append(@, col),
                          !.hits = Append(@, HitRecord(victim, obs.owner, obs.type, before, after))])

\* 5. Check for Overtakes.  cur and last are the rankings after and before
\* the step (1-based here); racer cur[i] improved its rank when i < its index
\* in last, and then the racers last[i+1 .. that index] are penalised.
RankIn(sorted, n) == CHOOSE i \in 1..Len(sorted) : sorted[i] = n

RECURSIVE OvertakeInner(_, _, _, _, _)
OvertakeInner(j, hi, rs, last, overtaker) ==
  IF j > hi THEN rs
  ELSE OvertakeInner(j + 1, hi,
         [rs EXCEPT ![last[j]] = update_relationship(@, overtaker, nemesis_overtake_relationship_penalty)],
         last, overtaker)

RECURSIVE CheckOvertakes(_, _, _, _)
CheckOvertakes(i, rs, cur, last) ==
  IF i > Len(cur) THEN rs
  ELSE LET last_rank_index == RankIn(last, cur[i])
       IN CheckOvertakes(i + 1,
            IF i < last_rank_index
              THEN OvertakeInner(i + 1, last_rank_index, rs, last, cur[i])
              ELSE rs,
            cur, last)

\* the win check with > for >=
FirstFinisher_Strict(rs) ==
  IF \E n \in Names : rs[n].position > track_length
    THEN RacerOrder[CHOOSE i \in 1..Len(RacerOrder) :
                      /\ rs[RacerOrder[i]].position > track_length
                      /\ \A j \in 1..(i - 1) : rs[RacerOrder[j]].position <= track_length]
    ELSE None

\* the win check taking the furthest racer at or past the track length
FirstFinisher_Furthest(rs) ==
  IF \E n \in Names : rs[n].position >= track_length
    THEN SortedNames(PositionsOf(rs))[1]
    ELSE None

\* 6. Check Win Condition: the first racer in iteration order at or past
\* the track length, or None
FirstFinisher(rs) ==
  IF \E n \in Names : rs[n].position >= track_length
    THEN RacerOrder[CHOOSE i \in 1..Len(RacerOrder) :
                      /\ rs[RacerOrder[i]].position >= track_length
                      /\ \A j \in 1..(i - 1) : rs[RacerOrder[j]].position < track_length]
    ELSE None

\* the final relationship update: racer sorted[i] towards sorted[j], j = from..i-1
\* (log.ranked below is the racers as the win check finds them)
RECURSIVE FinishInner(_, _, _, _)
FinishInner(j, i, rs, sorted) ==
  IF j >= i THEN rs
  ELSE FinishInner(j + 1, i,
         [rs EXCEPT ![sorted[i]] = update_relationship(@, sorted[j], nemesis_finish_ahead_penalty)],
         sorted)

\* the final update applied to the winner as well
RECURSIVE FinishUpdate_IncludesWinner(_, _, _, _)
FinishUpdate_IncludesWinner(i, rs, sorted, win) ==
  IF i > Len(sorted) THEN rs
  ELSE FinishUpdate_IncludesWinner(i + 1, FinishInner(1, i, rs, sorted), sorted, win)

RECURSIVE FinishUpdate(_, _, _, _)
FinishUpdate(i, rs, sorted, win) ==
  IF i > Len(sorted) THEN rs
  ELSE FinishUpdate(i + 1,
         IF sorted[i] # win THEN FinishInner(1, i, rs, sorted) ELSE rs,
         sorted, win)

\* ---------------------------------------------------------------- state
VARIABLES
  racers,          \* Game.racers: name -> Racer
  obstacles,       \* Game.obstacles
  winner,          \* Game.winner
  step_count,      \* Game.step_count
  game_over,       \* Game.game_over
  last_positions,  \* Game.last_positions
  out,             \* the last operation called (op, arg), what it returned or raised
                   \* (ret) and, for run_step, whether it found the race over (noop)
  log,             \* what the last run_step that ran did (history)
  live_calls       \* number of run_step calls made while the race was not over (history)

game == <<racers, obstacles, winner, step_count, game_over, last_positions>>
vars == <<config, racers, obstacles, winner, step_count, game_over, last_positions,
          out, log, live_calls>>

NoLog ==
  [ ran |-> FALSE, pre |-> <<>>, pre_obstacles |-> <<>>, actions |-> <<>>, moved |-> <<>>,
    used |-> <<>>, slot_after_use |-> <<>>, drew |-> <<>>,
    events |-> <<>>, hits |-> <<>>, collisions |-> <<>>, ranked |-> <<>>,
    boost_age |-> [n \in Names |-> {}], boost_alive |-> [n \in Names |-> {}] ]

\* Racer.__init__ samples the speed from [base_speed_min, base_speed_max].
\* The model takes the two ends of the range: one of Player and CPU_1 is
\* fast and the other slow, and CPU_2 is slow.
BaseSpeeds == {base_speed_min, base_speed_max}
InitSpeeds ==
  {speed \in [Names -> BaseSpeeds] :
     speed["Player"] # speed["CPU_1"] /\ speed["CPU_2"] = base_speed_min}

\* the configuration of the races below: CONFIG with its distances scaled down
ScaledConfig ==
  [ track_length |-> TrackLength,
    item_box_spacing |-> ItemBoxSpacing,
    catch_up_assist_threshold |-> CatchUpThreshold ]

\* Game.__init__(cfg), the racers' speeds being speed
NewGame(cfg, speed) ==
  /\ config = cfg
  /\ racers = [n \in Names |-> NewRacer(n, speed[n])]
  /\ obstacles = <<>>
  /\ winner = None
  /\ step_count = 0
  /\ game_over = FALSE
  /\ last_positions = <<>>
  /\ out = [op |-> "init", arg |-> None, ret |-> None, noop |-> FALSE]
  /\ log = NoLog
  /\ live_calls = 0

InitGame(speed) == NewGame(ScaledConfig, speed)

Init == \E speed \in InitSpeeds : InitGame(speed)

\* the race in which the player is the slow one
InitOne == \E speed \in InitSpeeds : speed["Player"] = base_speed_min /\ InitGame(speed)

\* CONFIG as the source has it (track_length, item_box_spacing,
\* catch_up_assist_threshold)
SourceConfig ==
  [ track_length |-> 1000,
    item_box_spacing |-> 200,
    catch_up_assist_threshold |-> 150 ]

\* the races on the source's track in which the player's base speed is 10,
\* CPU_1's is either end of the range and CPU_2's is base_speed_min
InitSolo ==
  \E fast \in BaseSpeeds :
    NewGame(SourceConfig,
            [n \in Names |-> IF n = player_name THEN 10
                              ELSE IF n = "CPU_1" THEN fast ELSE base_speed_min])

\* CONFIG with a track long enough for a Boost to run out before the finish
\* and item boxes close enough for a boosting racer to reach the next one
LongConfig ==
  [ track_length |-> 3 * TrackLength,
    item_box_spacing |-> 2 * ItemBoxSpacing,
    catch_up_assist_threshold |-> CatchUpThreshold ]

InitLong == \E speed \in InitSpeeds : NewGame(LongConfig, speed)

\* the functions f on Names with f[n] \in A[n], racers i..N first as tuples
RECURSIVE Tuples(_, _)
Tuples(i, A) ==
  IF i > Len(RacerOrder) THEN {<<>>}
  ELSE {<<x>> \o rest : x \in A[RacerOrder[i]], rest \in Tuples(i + 1, A)}

Choices(A) == {[n \in Names |-> t[IndexOf(n)]] : t \in Tuples(1, A)}

\* 1. Decide Actions: what each racer may do in this step
ActionChoices(rs, gs, player_action, player_target) ==
  Choices([n \in Names |->
    IF rs[n].is_player
      THEN {IF player_action # None THEN <<player_action, player_target>> ELSE <<"drive", None>>}
      ELSE decide_action(rs[n], rs, gs)])

\* the racer as update_step finds it: after its own use_item, if it calls it
BeforeUpdate(rs, n, action) ==
  IF action[1] = "use_item"
    THEN use_item([rs |-> rs, events |-> <<>>, obstacles |-> <<>>], n, action[2]).w.rs[n]
    ELSE rs[n]

\* what get_item may select for each racer: an item random.random() can
\* reach where update_step calls get_item, None where it does not
DrawChoices(rs, gs, actions) ==
  Choices([n \in Names |->
    LET r == BeforeUpdate(rs, n, actions[n])
    IN IF DrawsItem(r) THEN DrawableItems(Moved(r), gs) ELSE {None}])

\* the world a step starts from
StartWorld ==
  [ rs |-> racers, events |-> <<>>, obstacles |-> obstacles, kept |-> <<>>,
    used |-> [n \in Names |-> FALSE],
    slot_after_use |-> [n \in Names |-> "no call"],
    drew |-> [n \in Names |-> FALSE],
    hits |-> <<>>, collisions |-> <<>> ]

\* History of the Boosts in effect.  A use of a Boost counts from the step in
\* which a racer whose hit_timer is 0 uses it, until a hit lands on the racer.
\* BoostAges: the ages, in steps, that the counted uses of racer n have in
\* this step (0 for a use of this step, up to boost_duration).
BoostAges(n, actions) ==
  {a + 1 : a \in log.boost_alive[n]}
    \cup (IF /\ actions[n][1] = "use_item"
              /\ racers[n].current_item = BOOST
              /\ racers[n].hit_timer = 0
           THEN {0} ELSE {})

\* the ages carried into the next step: none once a hit landed on the racer
\* in this step (hits is the step's list of apply_hit calls), and none of age
\* boost_duration
BoostAlive(n, actions, hits) ==
  IF \E k \in 1..Len(hits) : hits[k].target = n /\ hits[k].before.hit_timer = 0
    THEN {}
    ELSE BoostAges(n, actions) \ {boost_duration}

\* the body of run_step for a race that is not over
StepResult(actions, draw) ==
  LET last_pos == PositionsOf(racers)
      w2 == ExecuteActions(1, StartWorld, actions, draw)
      w3 == ProcessEvents(1, w2)
      w4 == CheckObstacles(1, w3.obstacles, last_pos, w3)
      rs5 == CheckOvertakes(1, w4.rs, SortedNames(PositionsOf(w4.rs)), SortedNames(last_pos))
      win == FirstFinisher(rs5)
      rs6 == IF win # None
               THEN FinishUpdate(1, rs5, SortedNames(PositionsOf(rs5)), win)
               ELSE rs5
      rs7 == [n \in Names |-> check_trait_conditions(rs6[n])]
  IN [ racers |-> rs7, obstacles |-> w4.obstacles, winner |-> win,
       game_over |-> (win # None), last_positions |-> last_pos,
       log |-> [ ran |-> TRUE, pre |-> racers, pre_obstacles |-> obstacles,
                 actions |-> actions, moved |-> w2.rs,
                 used |-> w2.used, slot_after_use |-> w2.slot_after_use, drew |-> w2.drew,
                 events |-> w2.events, hits |-> w4.hits, collisions |-> w4.collisions,
                 ranked |-> rs5,
                 boost_age |-> [n \in Names |-> BoostAges(n, actions)],
                 boost_alive |-> [n \in Names |-> BoostAlive(n, actions, w4.hits)] ] ]

\* the assignments run_step makes, res being StepResult (passed as an
\* argument so that TLC computes it once)
Assign(res) ==
  /\ step_count' = step_count + 1
  /\ racers' = res.racers
  /\ obstacles' = res.obstacles
  /\ winner' = res.winner
  /\ game_over' = res.game_over
  /\ last_positions' = res.last_positions
  /\ log' = res.log
  /\ live_calls' = live_calls + 1
  /\ out' = [op |-> "run_step", arg |-> None, ret |-> res.game_over, noop |-> FALSE]
  /\ UNCHANGED config

PlayerInputs ==
  {<<None, None>>, <<"drive", None>>}
    \cup {<<"use_item", t>> : t \in Names \cup {None, Nobody}}

\* run_step on a race that is over: return True
ReturnOver ==
  /\ out' = [op |-> "run_step", arg |-> None, ret |-> TRUE, noop |-> TRUE]
  /\ UNCHANGED <<config, game, log, live_calls>>

\* run_step past its game_over check
RunLive(player_action, player_target) ==
  \E actions \in ActionChoices(racers, get_state(racers), player_action, player_target) :
  \E draw \in DrawChoices(racers, get_state(racers), actions) :
    Assign(StepResult(actions, draw))

\* run_step counting the step before it looks at game_over
RunStep_CountsFirst(player_action, player_target) ==
  IF game_over
    THEN /\ out' = [op |-> "run_step", arg |-> None, ret |-> TRUE, noop |-> TRUE]
         /\ step_count' = step_count + 1
         /\ UNCHANGED <<config, racers, obstacles, winner, game_over, last_positions, log, live_calls>>
    ELSE RunLive(player_action, player_target)

\* Game.run_step(player_action, player_target)
RunStep(player_action, player_target) ==
  IF game_over THEN ReturnOver ELSE RunLive(player_action, player_target)

\* Game.get_racer_details(name): the details text, the 'not found' text, or
\* the AttributeError that reading racer.last_hit_by_item raises while
\* apply_hit has never assigned it
get_racer_details(rs, name) ==
  IF name \notin Names THEN "not found"
  ELSE IF rs[name].last_hit_by_item = Unset THEN "AttributeError"
  ELSE "details"

GetRacerDetails(name) ==
  /\ out' = [op |-> "get_racer_details", arg |-> name,
              ret |-> get_racer_details(racers, name), noop |-> FALSE]
  /\ UNCHANGED <<config, game, log, live_calls>>

\* get_state handing the obstacles over to the snapshot and starting a new list
GetState_TakesObstacles ==
  /\ out' = [op |-> "get_state", arg |-> None, ret |-> get_state(racers).positions, noop |-> FALSE]
  /\ obstacles' = <<>>
  /\ UNCHANGED <<config, racers, winner, step_count, game_over, last_positions, log, live_calls>>

\* Game.get_state() called on its own (print_status and the console read the
\* race through it): the snapshot is returned and nothing is assigned
GetState ==
  /\ out' = [op |-> "get_state", arg |-> None, ret |-> get_state(racers).positions, noop |-> FALSE]
  /\ UNCHANGED <<config, game, log, live_calls>>

\* the console's rel command: r1.update_relationship(r2, value - current)
\* The commands the model issues set a CPU racer's score towards the player
\* (the attacker of the hits in these races) below, at or above the range.
RelValues == {-11, 11}
RelPairs == {<<c, player_name>> : c \in Names \ {player_name}}

\* rel applying the value as a change of the score
Rel_AddsValue(r1, r2, value) ==
  /\ step_count <= MaxRelStep
  /\ r1 \in Names /\ r2 \in Names /\ r1 # r2
  /\ racers' = [racers EXCEPT ![r1] = update_relationship(@, r2, value)]
  /\ out' = [op |-> "rel", arg |-> <<r1, r2, value>>,
              ret |-> RelGet(update_relationship(racers[r1], r2, value), r2), noop |-> FALSE]
  /\ UNCHANGED <<config, obstacles, winner, step_count, game_over, last_positions, log, live_calls>>

\* ret is the score the command prints after setting it
RelCmd(r1, r2, value) ==
  /\ r1 \in Names /\ r2 \in Names /\ r1 # r2
  /\ racers' = [racers EXCEPT ![r1] = update_relationship(@, r2, value - RelGet(@, r2))]
  /\ out' = [op |-> "rel", arg |-> <<r1, r2, value>>,
              ret |-> RelGet(update_relationship(racers[r1], r2, value - RelGet(racers[r1], r2)), r2),
              noop |-> FALSE]
  /\ UNCHANGED <<config, obstacles, winner, step_count, game_over, last_positions, log, live_calls>>

\* the rel command issued up to step MaxRelStep of the race
Rel(r1, r2, value) ==
  /\ step_count <= MaxRelStep
  /\ RelCmd(r1, r2, value)

\* the console's give command: racer.current_item = item_to_give
GiveItems == {GREEN_SHELL, BANANA}
Give(racer_name, item_to_give) ==
  /\ step_count <= MaxGiveStep
  /\ racer_name \in Names /\ item_to_give \in Items
  /\ racers' = [racers EXCEPT ![racer_name].current_item = item_to_give]
  /\ out' = [op |-> "give", arg |-> <<racer_name, item_to_give>>, ret |-> None, noop |-> FALSE]
  /\ UNCHANGED <<config, obstacles, winner, step_count, game_over, last_positions, log, live_calls>>

Step == \E in \in PlayerInputs : RunStep(in[1], in[2])
Status == \E name \in Names \cup {Nobody} : GetRacerDetails(name)
GiveItem == \E item \in GiveItems : Give(player_name, item)
SetRel == \E p \in RelPairs, value \in RelValues : Rel(p[1], p[2], value)
\* the rel command with every value from below the range to above it
SetRelAny == \E p \in RelPairs, value \in -12..12 : Rel(p[1], p[2], value)

\* the step command with no use command before it: the player drives
Drive == RunStep("drive", None)
\* the rel command at any step of a race that is not over (the console
\* reads commands while not game.game_over), on CPU_1's score of the player
SetRelRacing == ~game_over /\ \E value \in RelValues : RelCmd("CPU_1", player_name, value)

\* the race as run_step drives it
Next == Step
Spec == Init /\ [][Next]_vars

\* a run_step call that finds the race running: it counts the step
LiveStep == ~game_over /\ step_count' = step_count + 1

\* the race in which run_step is called again and again: while the race is
\* not over, a call that counts a step keeps coming
SpecFair == Spec /\ WF_step_count(LiveStep)

\* the race with the console's status command
NextStatus == Step \/ Status \/ GetState
SpecStatus == InitOne /\ [][NextStatus]_vars

\* the race with the console's rel command
NextDebug == Step \/ SetRel
SpecDebug == InitOne /\ [][NextDebug]_vars

\* the race with the console's give command
\* the player drives on or aims what it holds at CPU_2
AimedInputs == {<<"drive", None>>, <<"use_item", "CPU_2">>}
StepAimed == \E in \in AimedInputs : RunStep(in[1], in[2])
NextGive == StepAimed \/ GiveItem
SpecGive == Init /\ [][NextGive]_vars

\* the race on the source's track with a player that only drives
NextSolo == Drive
SpecSolo == InitSolo /\ [][NextSolo]_vars

\* the rel command on its own, before the race starts
NextRel == SetRelAny
SpecRel == InitOne /\ [][NextRel]_vars

\* the race of a player that only drives, with the rel command at any step
NextFixate == Drive \/ SetRelRacing
SpecFixate == InitOne /\ [][NextFixate]_vars

\* the race on the long track; the player drives or uses what it holds
\* without naming a target
UntargetedInputs == {<<"drive", None>>, <<"use_item", None>>}
StepUntargeted == \E in \in UntargetedInputs : RunStep(in[1], in[2])
NextLong == StepUntargeted
SpecLong == InitLong /\ [][NextLong]_vars

\* ================================================================ claims
Range(seq) == {seq[i] : i \in 1..Len(seq)}
CountGet(d, k) == IF k \in DOMAIN d THEN d[k] ELSE 0
IsShell(item) == item = GREEN_SHELL \/ item = RED_SHELL
\* the landed hits of the last step: apply_hit calls that found hit_timer = 0
Landed == {k \in 1..Len(log.hits) : log.hits[k].before.hit_timer = 0}

\* C1: in every reachable state, after any run_step calls and rel commands,
\* every relationship score of every racer towards every other racer is an
\* integer in [-10, 10].
C1_RelationshipRange ==
  \A n \in Names :
    /\ DOMAIN racers[n].relationships = Names \ {n}
    /\ \A o \in Names \ {n} : racers[n].relationships[o] \in -10..10

\* a hit landed on a racer whose score towards the attacker was already -10,
\* and the score is still -10
C1_Witness ==
  \E k \in Landed :
    LET h == log.hits[k]
    IN /\ h.attacker \in DOMAIN h.before.relationships
       /\ h.before.relationships[h.attacker] = -10
       /\ racers[h.target].relationships[h.attacker] = -10

\* C2: for every racer, boost_timer > 0 and hit_timer > 0 never hold at the
\* same time.
C2_TimersExclusive ==
  \A n \in Names : ~(racers[n].boost_timer > 0 /\ racers[n].hit_timer > 0)

\* C3: apply_hit on a racer whose hit_timer > 0 changes nothing on that
\* racer, for every attacker and item kind: every apply_hit call of the last
\* step that found hit_timer > 0 left the racer as it was.
C3_ImmuneHitNoOp ==
  \A k \in 1..Len(log.hits) :
    log.hits[k].before.hit_timer > 0 => log.hits[k].after = log.hits[k].before

\* apply_hit was called on an immune racer
C3_Witness ==
  \E k \in 1..Len(log.hits) :
    /\ log.hits[k].before.hit_timer > 0
    /\ racers[log.hits[k].target].times_hit_by = log.hits[k].before.times_hit_by

\* C4: the winner is unset and the race not over as long as every racer is
\* short of the track length; the step at whose end some racer is at or past
\* it sets both; once set, the winner never changes and game_over never resets.
C4_Running ==
  (\A n \in Names : racers[n].position < track_length) => (winner = None /\ ~game_over)
C4_Finished ==
  (\E n \in Names : racers[n].position >= track_length) =>
    (game_over /\ winner \in Names /\ racers[winner].position >= track_length)
C4_WinnerSetOnce ==
  /\ [](C4_Running /\ C4_Finished)
  /\ [][game_over => (game_over' /\ winner' = winner)]_vars

\* the step that ended the race: nobody had finished before it
C4_Witness ==
  /\ game_over /\ winner \in Names
  /\ log.ran /\ \A n \in Names : log.pre[n].position < track_length
  /\ racers[winner].position >= track_length

\* C5: run_step on a race that is over returns true and leaves the whole
\* state unchanged; the step counter starts at 0 and equals the number of
\* run_step calls made while the race was not over.
C5_TerminalNoOp ==
  /\ step_count = 0
  /\ [](step_count = live_calls)
  /\ [][game_over /\ out'.op = "run_step" => (UNCHANGED game /\ out'.ret = TRUE)]_vars

\* run_step has been called on a race that was over, after step_count steps
C5_Witness ==
  /\ out.op = "run_step" /\ out.noop /\ out.ret = TRUE
  /\ game_over /\ step_count = live_calls /\ step_count > 0

\* C6 as claimed: a shell hit from B that lands on A leaves A, at the end of
\* that step, with hit_timer = shell_hit_duration, boost_timer = 0,
\* times_hit_by[shell] and hit_by_count[B] one higher, and the score of A
\* towards B lower by the hit penalty, clamped at -10.
C6_ShellHitAtStepEnd ==
  \A k \in Landed :
    LET h == log.hits[k]
        A == racers[h.target]
        pre == log.pre[h.target]
    IN IsShell(h.item) =>
         /\ A.hit_timer = shell_hit_duration
         /\ A.boost_timer = 0
         /\ A.times_hit_by[h.item] = pre.times_hit_by[h.item] + 1
         /\ CountGet(A.hit_by_count, h.attacker) = CountGet(pre.hit_by_count, h.attacker) + 1
         /\ h.attacker # h.target =>
              A.relationships[h.attacker] =
                Max(-10, pre.relationships[h.attacker] + nemesis_hit_relationship_penalty)

\* C6 as amended: the timers and counters are as claimed at the end of the
\* step; the score of A towards B is lower by the hit penalty, clamped at
\* -10, when apply_hit returns, and by the end of the step it is at most
\* that and lower by no more than the overtake and finish penalties.
C6_ShellHit ==
  \A k \in Landed :
    LET h == log.hits[k]
        A == racers[h.target]
        pre == log.pre[h.target]
        hit_score == Max(-10, pre.relationships[h.attacker] + nemesis_hit_relationship_penalty)
    IN IsShell(h.item) =>
         /\ A.hit_timer = shell_hit_duration
         /\ A.boost_timer = 0
         /\ A.times_hit_by[h.item] = pre.times_hit_by[h.item] + 1
         /\ CountGet(A.hit_by_count, h.attacker) = CountGet(pre.hit_by_count, h.attacker) + 1
         /\ h.attacker # h.target =>
              /\ h.after.relationships[h.attacker] = hit_score
              /\ A.relationships[h.attacker] <= hit_score
              /\ A.relationships[h.attacker] >=
                   Max(-10, hit_score + nemesis_overtake_relationship_penalty
                                      + nemesis_finish_ahead_penalty)

\* a shell hit landed and a penalty of the same step lowered the score further
C6_Witness ==
  \E k \in Landed :
    LET h == log.hits[k]
    IN /\ IsShell(h.item) /\ h.attacker # h.target
       /\ racers[h.target].hit_timer = shell_hit_duration
       /\ racers[h.target].relationships[h.attacker] < h.after.relationships[h.attacker]

\* C7: for each live obstacle of a step, the first racer in iteration order
\* that crossed it in the step (pre < obstacle <= post) with hit_timer 0 when
\* the obstacle is resolved is hit with Banana by the obstacle's owner and the
\* obstacle is removed; with no such racer the obstacle stays as it is.
Qualifying(c) ==
  {n \in Names : /\ log.pre[n].position < c.obs.position
                 /\ c.obs.position <= racers[n].position
                 /\ c.timers[n] = 0}
FirstOf(S) == CHOOSE n \in S : \A m \in S : IndexOf(n) <= IndexOf(m)
C7_ObstacleCollision ==
  log.ran =>
    /\ \A i \in 1..Len(log.pre_obstacles) :
         i <= Len(log.collisions) /\ log.collisions[i].obs = log.pre_obstacles[i]
    /\ \A k \in 1..Len(log.collisions) :
         LET c == log.collisions[k]
             Q == Qualifying(c)
         IN IF Q # {}
              THEN /\ c.hit = FirstOf(Q)
                   /\ c.obs \notin Range(obstacles)
                   /\ \E j \in Landed :
                        /\ log.hits[j].target = c.hit
                        /\ log.hits[j].attacker = c.obs.owner
                        /\ log.hits[j].item = BANANA
                        /\ log.hits[j].after.last_hit_by = c.obs.owner
                        /\ log.hits[j].after.last_hit_by_item = BANANA
                        /\ log.hits[j].after.hit_timer = banana_hit_duration
              ELSE /\ c.hit = None
                   /\ c.obs \in Range(obstacles)

\* a racer crossed an obstacle in the step in which a shell hit it, so it was
\* immune when the obstacle was resolved, and the obstacle stayed as it was
C7_Witness ==
  \E k \in 1..Len(log.collisions) :
    LET c == log.collisions[k]
    IN /\ c.hit = None /\ c.obs \in Range(obstacles)
       /\ \E n \in Names :
            /\ log.pre[n].position < c.obs.position /\ c.obs.position <= racers[n].position
            /\ log.pre[n].hit_timer = 0 /\ c.timers[n] > 0
            /\ \E j \in Landed : log.hits[j].target = n /\ IsShell(log.hits[j].item)

\* C8: every run_step on a race that is not over moves every racer forward
\* by at least 1, whatever its hit penalty, traits or item use.
C8_AlwaysAdvances ==
  log.ran => \A n \in Names : racers[n].position >= log.pre[n].position + H(1)

\* a racer under a hit penalty moved by exactly 1
C8_Witness ==
  \E n \in Names :
    /\ log.ran /\ log.pre[n].hit_timer > 0
    /\ racers[n].position = log.pre[n].position + H(1)

\* C9: use_item that returns true leaves the slot empty; across run_step a
\* slot goes from empty to non-empty only through the item draw of
\* update_step, made when the racer reaches its item box with an empty slot;
\* a held item is never replaced by a draw.
C9_ItemSlot ==
  log.ran =>
    \A n \in Names :
      LET pre == log.pre[n]
          now == racers[n]
          empty_at_update == pre.current_item = None \/ log.used[n]
      IN /\ log.used[n] => log.slot_after_use[n] = None
         /\ (now.current_item # None /\ empty_at_update) => log.drew[n]
         /\ log.drew[n] => /\ empty_at_update
                           /\ now.position >= pre.next_item_box_pos
                           /\ now.current_item \in Items
         /\ ~empty_at_update => (now.current_item = pre.current_item /\ ~log.drew[n])
         /\ (empty_at_update /\ ~log.drew[n]) => now.current_item = None

\* a racer used its item and drew a new one in the same step, and another
\* passed its item box holding an item and kept it
C9_Witness ==
  /\ \E n \in Names : log.ran /\ log.used[n] /\ log.drew[n] /\ racers[n].current_item # None
  /\ \E n \in Names :
       /\ log.ran /\ log.pre[n].current_item # None /\ ~log.used[n]
       /\ racers[n].position >= log.pre[n].next_item_box_pos
       /\ racers[n].current_item = log.pre[n].current_item

\* C10: get_racer_details with the name of an existing racer returns the
\* details and never raises, in any reachable state; with an unknown name it
\* reports 'not found'.
C10_DetailsNeverRaise ==
  out.op = "get_racer_details" =>
    /\ out.arg \in Names => out.ret = "details"
    /\ out.arg \notin Names => out.ret = "not found"

\* C16: a racer that starts at position 0 with base speed 10 on a track of
\* length 1000, never uses an item and is never hit, has position 10 * k
\* after k steps, and is first at or past the track length at the end of
\* exactly step 100; with no other racer finishing earlier the race is over
\* in step 100 and not before.
C16_SoloFinish ==
  LET A == racers[player_name]
      others_short == \A n \in Names \ {player_name} : racers[n].position < track_length
  IN /\ A.base_speed = H(10) /\ track_length = H(1000)
     /\ \A i \in Items : A.item_uses[i] = 0
     /\ \A i \in HitItems : A.times_hit_by[i] = 0
     /\ A.position = H(10) * step_count
     /\ A.position >= track_length <=> step_count >= 100
     /\ (step_count < 100 /\ others_short) => ~game_over
     /\ step_count = 100 => game_over

\* the player reached the track length in step 100 and won the race
C16_Witness ==
  /\ step_count = 100 /\ game_over /\ winner = player_name
  /\ racers[player_name].position = H(1000)
  /\ log.pre[player_name].position < track_length
  /\ \E n \in Names : racers[n].item_uses[BOOST] > 0

\* the position racer m has when racer n's use_item runs: the racers before n
\* in iteration order have moved, the others have not
PosAtUse(n, m) ==
  IF IndexOf(m) < IndexOf(n) THEN log.moved[m].position ELSE log.pre[m].position

\* the shell uses of the last step that name no valid target
Fizzled(n) ==
  LET item == log.pre[n].current_item
      target == log.actions[n][2]
  IN /\ log.ran /\ log.actions[n][1] = "use_item" /\ IsShell(item)
     /\ \/ target \notin Names
        \/ item = RED_SHELL /\ PosAtUse(n, target) <= PosAtUse(n, n)

\* C11: a Red Shell used with a target name that is absent, unknown or names a
\* racer not strictly ahead at use time fizzles, and so does a Green Shell
\* with an absent or unknown target: the item is consumed (slot empty, its
\* item_uses one higher, use_item returns true), no hit event is appended
\* and the attacker's hit_others_count is unchanged.
C11_ShellFizzles ==
  \A n \in Names :
    Fizzled(n) =>
      LET item == log.pre[n].current_item
      IN /\ log.used[n]
         /\ log.slot_after_use[n] = None
         /\ racers[n].item_uses = [log.pre[n].item_uses EXCEPT ![item] = @ + 1]
         /\ \A k \in 1..Len(log.events) : log.events[k].attacker # n
         /\ racers[n].hit_others_count = log.pre[n].hit_others_count

\* a Red Shell was fired at a racer that exists but is not ahead
C11_Witness ==
  \E n \in Names :
    /\ Fizzled(n) /\ log.pre[n].current_item = RED_SHELL
    /\ log.actions[n][2] \in Names \ {n}
    /\ racers[n].item_uses[RED_SHELL] = log.pre[n].item_uses[RED_SHELL] + 1
    /\ log.events = <<>>

\* C12: a use_item action of a racer whose slot is empty is a no-op for item
\* state: use_item returns false, no usage counter changes, no hit event is
\* emitted and no obstacle is placed; the racer still moves in that step.
C12_EmptySlotUse ==
  \A n \in Names :
    (log.ran /\ log.actions[n][1] = "use_item" /\ log.pre[n].current_item = None) =>
      /\ ~log.used[n]
      /\ racers[n].item_uses = log.pre[n].item_uses
      /\ racers[n].hit_others_count = log.pre[n].hit_others_count
      /\ racers[n].boost_timer <= log.pre[n].boost_timer
      /\ \A k \in 1..Len(log.events) : log.events[k].attacker # n
      /\ \A k \in 1..Len(log.collisions) :
           log.collisions[k].obs.owner = n => log.collisions[k].obs \in Range(log.pre_obstacles)
      /\ racers[n].position >= log.pre[n].position + H(1)
      /\ racers[n].position = Moved(log.pre[n]).position

\* the player asked to use an item it did not hold, and moved
C12_Witness ==
  /\ log.ran /\ log.actions[player_name][1] = "use_item"
  /\ log.pre[player_name].current_item = None
  /\ ~log.used[player_name]
  /\ racers[player_name].position > log.pre[player_name].position

\* C13: get_state and get_racer_details never mutate race or racer state:
\* whatever the state and the argument, the configuration, step counter,
\* winner, game_over, obstacles, last positions and every racer are the same
\* after the call as before (so later run_step calls start from the same
\* state however many queries were made in between).
C13_QueriesReadOnly ==
  [][(out'.op = "get_state" \/ out'.op = "get_racer_details") => UNCHANGED <<config, game>>]_vars

\* the snapshot was taken in a race under way with an obstacle on the track
C13_Witness ==
  /\ out.op = "get_state" /\ step_count > 0 /\ ~game_over
  /\ obstacles # <<>>
  /\ Len(out.ret) = Cardinality(Names)

\* the counts check_trait_conditions compares with nemesis_trait_threshold
OffensiveUses(r) == r.item_uses[GREEN_SHELL] + r.item_uses[RED_SHELL]
ShellHits(r) == r.times_hit_by[GREEN_SHELL] + r.times_hit_by[RED_SHELL]

\* C14: Aggressive and Shell-Shocked are permanent: a racer that has either
\* trait has it in every later state; and at the end of every run_step a
\* racer whose offensive item uses are >= nemesis_trait_threshold has
\* Aggressive, and one whose shell hits received are >= the threshold has
\* Shell-Shocked.
C14_PermanentTraits ==
  /\ [](\A n \in Names :
          /\ OffensiveUses(racers[n]) >= nemesis_trait_threshold => AGGRESSIVE \in racers[n].traits
          /\ ShellHits(racers[n]) >= nemesis_trait_threshold => SHELL_SHOCKED \in racers[n].traits)
  /\ [][\A n \in Names :
          /\ AGGRESSIVE \in racers[n].traits => AGGRESSIVE \in racers'[n].traits
          /\ SHELL_SHOCKED \in racers[n].traits => SHELL_SHOCKED \in racers'[n].traits]_vars

\* a racer that became Aggressive in an earlier step still is, and a racer
\* has been hit by enough shells to be Shell-Shocked
C14_Witness ==
  /\ log.ran
  /\ \E n \in Names :
       /\ AGGRESSIVE \in log.pre[n].traits /\ AGGRESSIVE \in racers[n].traits
       /\ OffensiveUses(racers[n]) >= nemesis_trait_threshold
  /\ \E n \in Names :
       /\ SHELL_SHOCKED \in racers[n].traits
       /\ ShellHits(racers[n]) = nemesis_trait_threshold

\* C15: setting the score of r1 towards another racer r2 to the integer v
\* with the rel command (update_relationship with v - current) and reading it
\* back gives exactly clamp(v, -10, 10), for every prior score and every v.
C15_RelRoundTrip ==
  out.op = "rel" =>
    LET v == out.arg[3]
        clamped == IF v < -10 THEN -10 ELSE IF v > 10 THEN 10 ELSE v
    IN /\ racers[out.arg[1]].relationships[out.arg[2]] = clamped
       /\ out.ret = clamped

\* a score was set inside the range while another stood at the upper limit
C15_Witness ==
  /\ out.op = "rel" /\ out.arg = <<"CPU_1", player_name, -7>>
  /\ racers["CPU_1"].relationships[player_name] = -7
  /\ racers["CPU_2"].relationships[player_name] = 10

\* the rankings run_step compares: before and after the last step
LastRanking == SortedNames(PositionsOf(log.pre))
CurRanking == SortedNames(PositionsOf(racers))

\* C17: whenever a run_step moves racer X to a better rank, every racer X
\* overtook (ranked ahead of X before the step and behind X after it) has its
\* score towards X decreased by nemesis_overtake_relationship_penalty,
\* clamped at -10.  Stated for the racers strictly ahead of X before the step
\* and strictly behind it after; the score may be lower still by the other
\* penalties of the step.
C17_OvertakePenalty ==
  log.ran =>
    \A X \in Names : \A Y \in Names \ {X} :
      ( /\ RankIn(CurRanking, X) < RankIn(LastRanking, X)
        /\ log.pre[Y].position > log.pre[X].position
        /\ racers[Y].position < racers[X].position ) =>
        racers[Y].relationships[X] <=
          Max(-10, log.pre[Y].relationships[X] + nemesis_overtake_relationship_penalty)

\* the racers strictly ahead of racer n when the last step decided the actions
StrictlyAhead(n) == {m \in Names \ {n} : log.pre[m].position > log.pre[n].position}

\* the racers with a score of n at or below nemesis_targeting_threshold
Nemeses(n) ==
  {m \in Names \ {n} : log.pre[n].relationships[m] <= nemesis_targeting_threshold}

\* C18: decide_action of a CPU racer holding a Green Shell returns use_item
\* with a target whenever some racer is strictly ahead of it (the target
\* strictly ahead: a nemesis if one is ahead), and drive only when no racer
\* is ahead.
C18_GreenShellFires ==
  log.ran =>
    \A n \in Names \ {player_name} :
      log.pre[n].current_item = GREEN_SHELL =>
        IF StrictlyAhead(n) # {}
          THEN /\ log.actions[n][1] = "use_item"
               /\ log.actions[n][2] \in StrictlyAhead(n)
               /\ (Nemeses(n) \cap StrictlyAhead(n) # {}) => log.actions[n][2] \in Nemeses(n)
          ELSE log.actions[n] = <<"drive", None>>

\* C19: decide_action of a CPU racer holding a Red Shell, with some racer
\* strictly ahead and no nemesis ahead, returns use_item targeting the closest
\* racer ahead (the minimum position among those strictly ahead).
C19_RedShellClosest ==
  log.ran =>
    \A n \in Names \ {player_name} :
      ( /\ log.pre[n].current_item = RED_SHELL
        /\ StrictlyAhead(n) # {}
        /\ Nemeses(n) \cap StrictlyAhead(n) = {} ) =>
        /\ log.actions[n][1] = "use_item"
        /\ log.actions[n][2] \in StrictlyAhead(n)
        /\ \A m \in StrictlyAhead(n) :
             log.pre[log.actions[n][2]].position <= log.pre[m].position

\* the racers behind racer n by less than 50 when the last step decided the actions
CloseBehind(n) ==
  {m \in Names \ {n} : /\ log.pre[m].position < log.pre[n].position
                        /\ log.pre[n].position - log.pre[m].position < H(close_behind_range)}

\* C20: decide_action of a CPU racer holding a Banana returns use_item
\* whenever its nemesis target is behind it by less than 50; and with no
\* racer behind within 50 and without the Aggressive trait it returns drive.
C20_BananaDrop ==
  log.ran =>
    \A n \in Names \ {player_name} :
      log.pre[n].current_item = BANANA =>
        /\ (nemesis_target(log.pre[n]) \in CloseBehind(n)) =>
             log.actions[n] = <<"use_item", None>>
        /\ (CloseBehind(n) = {} /\ AGGRESSIVE \notin log.pre[n].traits) =>
             log.actions[n] = <<"drive", None>>

\* the greatest position in the state the last step started from
LeaderPos == CHOOSE p \in {log.pre[n].position : n \in Names} :
               \A m \in Names : log.pre[m].position <= p

\* C21: whenever a racer draws an item, get_item applies the catch-up rule
\* to the draw exactly when the leader's position (the greatest position in
\* the step's state) exceeds the drawing racer's position by more than
\* catch_up_assist_threshold.
C21_CatchUpRule ==
  log.ran =>
    \A n \in Names :
      log.drew[n] =>
        ( catch_up_applies(log.moved[n], get_state(log.pre))
            <=> LeaderPos - log.moved[n].position > catch_up_assist_threshold )

\* C22: on the step that ends the race every racer r other than the winner
\* has its score towards every racer placed before r in the final ranking
\* decreased by nemesis_finish_ahead_penalty (clamped at -10) exactly once,
\* the winner's scores get no finish penalty, and the scores stay as they
\* are in every later run_step.
C22_FinishPenalty ==
  (log.ran /\ game_over) =>
    \A r \in Names : \A o \in Names \ {r} :
      racers[r].relationships[o] =
        IF r # winner /\ RankIn(CurRanking, o) < RankIn(CurRanking, r)
          THEN Max(-10, log.ranked[r].relationships[o] + nemesis_finish_ahead_penalty)
          ELSE log.ranked[r].relationships[o]

\* the race is over and run_step was called again; the winner finished
\* behind another racer and kept its score towards it, and the last racer's
\* score towards the first dropped by the penalty
C22_Witness ==
  /\ game_over /\ out.op = "run_step" /\ out.noop
  /\ CurRanking[1] # winner
  /\ racers[winner].relationships[CurRanking[1]] = log.ranked[winner].relationships[CurRanking[1]]
  /\ racers[CurRanking[3]].relationships[CurRanking[1]]
       = log.ranked[CurRanking[3]].relationships[CurRanking[1]] + nemesis_finish_ahead_penalty

\* the racers at or past the track length
Finishers == {n \in Names : racers[n].position >= track_length}

\* C23: when several racers are at or past the track length at the end of
\* the terminal step, the winner is the first of them in iteration order
\* (Player, CPU_1, CPU_2), whichever of them is further.
C23_WinnerByIterationOrder ==
  (log.ran /\ game_over) =>
    /\ Finishers # {}
    /\ winner = FirstOf(Finishers)

\* two racers finished in the same step and the winner is not the furthest
C23_Witness ==
  /\ log.ran /\ game_over
  /\ Cardinality(Finishers) >= 2
  /\ \E n \in Finishers : racers[n].position > racers[winner].position

\* the pending events of the last step that racer n emitted
EventsOf(n) == {k \in 1..Len(log.events) : log.events[k].attacker = n}

\* C24: using a Green Shell with a target name that is a racer appends
\* exactly one hit event (attacker, target, Green Shell) and increments the
\* attacker's hit_others_count[target] by exactly 1 at use time, also when
\* the target is immune at resolution: the hit then does not land and the
\* target is left unchanged.
C24_GreenShellEmits ==
  log.ran =>
    \A n \in Names :
      ( /\ log.pre[n].current_item = GREEN_SHELL
        /\ log.actions[n][1] = "use_item"
        /\ log.actions[n][2] \in Names ) =>
        LET t == log.actions[n][2] IN
        /\ Cardinality(EventsOf(n)) = 1
        /\ \A k \in EventsOf(n) :
             /\ log.events[k] = [attacker |-> n, target |-> t, item |-> GREEN_SHELL]
             /\ log.hits[k].target = t /\ log.hits[k].item = GREEN_SHELL
             /\ log.hits[k].before.hit_timer > 0 => log.hits[k].after = log.hits[k].before
        /\ CountGet(log.moved[n].hit_others_count, t) = CountGet(log.pre[n].hit_others_count, t) + 1
        /\ CountGet(racers[n].hit_others_count, t) = CountGet(log.pre[n].hit_others_count, t) + 1

\* the player fired a Green Shell at a racer that was stunned when the
\* event was resolved: the attempt is counted and the target's counters
\* and timer are those it had after moving
C24_Witness ==
  /\ log.ran
  /\ log.pre[player_name].current_item = GREEN_SHELL
  /\ log.actions[player_name] = <<"use_item", "CPU_1">>
  /\ Len(log.events) = 1
  /\ log.hits[1].before.hit_timer > 0
  /\ racers["CPU_1"].times_hit_by = log.moved["CPU_1"].times_hit_by
  /\ racers["CPU_1"].hit_timer = log.moved["CPU_1"].hit_timer
  /\ racers[player_name].hit_others_count["CPU_1"] = log.pre[player_name].hit_others_count["CPU_1"] + 1

\* whether some score of racer r is at or below nemesis_targeting_threshold
HasNemesis(r) == \E o \in DOMAIN r.relationships : r.relationships[o] <= nemesis_targeting_threshold

\* C25: at the initial state and at the end of every run_step, every racer
\* has the Target Fixated trait if and only if one of its scores is at or
\* below nemesis_targeting_threshold.
C25_TargetFixated ==
  (out.op = "init" \/ out.op = "run_step") =>
    \A n \in Names : (TARGET_FIXATED \in racers[n].traits) <=> HasNemesis(racers[n])

\* a run_step took Target Fixated away from CPU_1: it had the trait when
\* the step began, its score had been raised since, and the race goes on
C25_Witness ==
  /\ out.op = "run_step" /\ ~out.noop /\ ~game_over
  /\ TARGET_FIXATED \in log.pre["CPU_1"].traits
  /\ TARGET_FIXATED \notin racers["CPU_1"].traits
  /\ ~HasNemesis(racers["CPU_1"])

\* the apply_hit calls of the last step made on racer n, in order
HitsOn(n) == {k \in 1..Len(log.hits) : log.hits[k].target = n}

\* the distance a racer stunned by item covers in one step
StunnedMove(r, item) ==
  LET penalty == IF IsShell(item) THEN shell_hit_speed_penalty ELSE banana_hit_speed_penalty
      scaled == IF SHELL_SHOCKED \in r.traits THEN 3 * penalty ELSE H(penalty)
  IN Max(H(1), r.base_speed + scaled)

\* C26: a hit that lands on racer A in step k with duration D >= 1 leaves
\* A's movement of step k alone; A moves with the hit speed penalty in
\* exactly the steps k+1 .. k+D; hits and obstacle crossings resolved against
\* A in steps k+1 .. k+D-1 are ignored; a hit resolved in step k+D lands; and
\* last_hit_by / last_hit_by_item are cleared exactly when the timer reaches
\* 0 in the movement of step k+D.  Stated step by step on the hit timer: a
\* landing sets it to D after the racer has moved, every step of a stunned
\* racer lowers it by one and moves the racer with the penalty, resolutions
\* are ignored while it is positive after moving and land when it is 0.
C26_HitWindow ==
  log.ran =>
    \A A \in Names :
      LET pre == log.pre[A]
          mv == log.moved[A]
          dist == mv.position - pre.position
      IN /\ racers[A].position = mv.position
         /\ pre.hit_timer > 0 =>
              /\ dist = StunnedMove(pre, pre.last_hit_by_item)
              /\ mv.hit_timer = pre.hit_timer - 1
         /\ pre.hit_timer = 0 =>
              /\ dist \in {pre.base_speed, pre.base_speed + H(boost_speed_bonus)}
              /\ mv.hit_timer = 0
         /\ IF pre.hit_timer = 1
              THEN mv.last_hit_by = None /\ mv.last_hit_by_item = None
              ELSE mv.last_hit_by = pre.last_hit_by /\ mv.last_hit_by_item = pre.last_hit_by_item
         /\ \A k \in HitsOn(A) :
              IF log.hits[k].before.hit_timer > 0
                THEN log.hits[k].after = log.hits[k].before
                ELSE /\ log.hits[k].after.hit_timer = HitDuration(log.hits[k].item)
                     /\ log.hits[k].after.hit_timer >= 1
                     /\ log.hits[k].after.last_hit_by_item = log.hits[k].item
                     /\ log.hits[k].after.last_hit_by = log.hits[k].attacker
         /\ (mv.hit_timer > 0 /\ HitsOn(A) # {}) =>
              /\ racers[A].hit_timer = mv.hit_timer
              /\ racers[A].times_hit_by = mv.times_hit_by
         /\ (mv.hit_timer = 0 /\ HitsOn(A) # {}) =>
              /\ racers[A].hit_timer >= 1
              /\ \E k \in HitsOn(A) : racers[A].hit_timer = HitDuration(log.hits[k].item)

\* the last step of a stun (k+D): CPU_2 moved with the shell's penalty, the
\* movement cleared last_hit_by, and a new hit resolved in the same step landed
C26_Witness ==
  /\ log.ran
  /\ log.pre["CPU_2"].hit_timer = 1
  /\ IsShell(log.pre["CPU_2"].last_hit_by_item)
  /\ log.moved["CPU_2"].position - log.pre["CPU_2"].position = H(1)
  /\ log.moved["CPU_2"].last_hit_by = None
  /\ HitsOn("CPU_2") # {}
  /\ racers["CPU_2"].hit_timer >= 1

\* a step inside the window (before k+D): a hit on a stunned racer was ignored
C26_WitnessIgnored ==
  /\ log.ran
  /\ \E A \in Names : /\ log.pre[A].hit_timer > 1
                       /\ HitsOn(A) # {}
                       /\ racers[A].hit_timer = log.pre[A].hit_timer - 1

\* the distance racer n covered in the last step
Dist(n) == log.moved[n].position - log.pre[n].position

\* what a use of a Boost that has age a in a step requires of the step: the
\* boosted speed in the steps k .. k+boost_duration-1, the base speed in
\* step k+boost_duration
BoostedAsClaimed(n, a) ==
  Dist(n) = IF a < boost_duration THEN log.pre[n].base_speed + H(boost_speed_bonus)
                                  ELSE log.pre[n].base_speed

\* a CPU racer holding a Boost decides use_item exactly when its boost_timer is 0
BoostDecision ==
  \A n \in Names \ {player_name} :
    log.pre[n].current_item = BOOST =>
      log.actions[n] = IF log.pre[n].boost_timer = 0 THEN <<"use_item", None>>
                                                     ELSE <<"drive", None>>

\* C27 as stated: a racer that uses a Boost in step k with hit timer 0, and
\* on which no hit lands in steps k .. k+boost_duration-1, moves at base
\* speed + boost_speed_bonus in exactly the steps k .. k+boost_duration-1 and
\* at base speed in step k+boost_duration; a CPU racer holding a Boost
\* decides use_item exactly when its boost_timer is 0.
C27_BoostWindow ==
  log.ran =>
    /\ \A n \in Names : \A a \in log.boost_age[n] : BoostedAsClaimed(n, a)
    /\ BoostDecision

\* the latest use of a Boost that counts for racer n in the last step
LatestBoost(n) == CHOOSE a \in log.boost_age[n] : \A b \in log.boost_age[n] : a <= b

\* C27 (amended): the same for a racer that uses no other Boost in the
\* steps k+1 .. k+boost_duration.
C27_BoostWindowSingleUse ==
  log.ran =>
    /\ \A n \in Names : log.boost_age[n] # {} => BoostedAsClaimed(n, LatestBoost(n))
    /\ BoostDecision

\* step k+boost_duration of a CPU racer's only Boost in effect: it moved at
\* base speed, and no hit had landed on it since the use
C27_Witness ==
  /\ log.ran
  /\ \E n \in Names \ {player_name} :
       /\ log.boost_age[n] = {boost_duration}
       /\ Dist(n) = log.pre[n].base_speed
       /\ log.pre[n].hit_timer = 0

\* the item slot of racer n when update_step began in the last step: empty
\* after a use_item call, else as the step found it
SlotAtUpdate(n) ==
  IF log.actions[n][1] = "use_item" THEN None ELSE log.pre[n].current_item

\* C28: whenever a racer's position after moving is at or beyond its next
\* item-box threshold, the threshold advances by exactly item_box_spacing,
\* once, whether or not the slot was empty; an item is drawn only if the slot
\* was empty, and a racer holding an item keeps it and forfeits the box.
\* Below the threshold nothing changes.
C28_ItemBox ==
  log.ran =>
    \A n \in Names :
      LET pre == log.pre[n]
          mv == log.moved[n]
      IN IF mv.position >= pre.next_item_box_pos
           THEN /\ mv.next_item_box_pos = pre.next_item_box_pos + item_box_spacing
                /\ IF SlotAtUpdate(n) = None
                     THEN log.drew[n] /\ mv.current_item \in Items
                     ELSE ~log.drew[n] /\ mv.current_item = SlotAtUpdate(n)
           ELSE /\ mv.next_item_box_pos = pre.next_item_box_pos
                /\ ~log.drew[n]
                /\ mv.current_item = SlotAtUpdate(n)

\* a racer holding an item reached its item box: it kept the item and the
\* threshold moved on
C28_Witness ==
  /\ log.ran
  /\ \E n \in Names :
       /\ SlotAtUpdate(n) \in Items
       /\ log.moved[n].position >= log.pre[n].next_item_box_pos
       /\ log.moved[n].current_item = SlotAtUpdate(n)
       /\ log.moved[n].next_item_box_pos = log.pre[n].next_item_box_pos + item_box_spacing

\* a racer passed two thresholds in one step and the threshold moved on once
C28_WitnessTwoBoxes ==
  /\ log.ran
  /\ \E n \in Names :
       /\ log.moved[n].position >= log.pre[n].next_item_box_pos + item_box_spacing
       /\ log.moved[n].next_item_box_pos = log.pre[n].next_item_box_pos + item_box_spacing

\* C29: every race terminates.  Whatever the player does and whatever the
\* random choices are, calling run_step again and again reaches the terminal
\* state; the step counter never exceeds track_length, because every racer
\* advances by at least 1 in every step that runs.
C29_Terminates ==
  /\ <>game_over
  /\ [](step_count <= config.track_length)
  /\ [](log.ran => \A n \in Names : racers[n].position - log.pre[n].position >= H(1))

\* the race is over after a step in which a stunned racer advanced by the
\* minimum of 1
C29_Witness ==
  /\ game_over /\ winner \in Names /\ log.ran
  /\ step_count >= 1 /\ step_count <= config.track_length
  /\ \E n \in Names : log.pre[n].hit_timer > 0 /\ racers[n].position - log.pre[n].position = H(1)

RECURSIVE SumOf(_, _)
SumOf(S, f) ==
  IF S = {} THEN 0
  ELSE LET x == CHOOSE y \in S : TRUE IN f[x] + SumOf(S \ {x}, f)

BananaUses == SumOf(Names, [n \in Names |-> racers[n].item_uses[BANANA]])
BananaHits == SumOf(Names, [n \in Names |-> racers[n].times_hit_by[BANANA]])

\* the obstacles the last step placed: those it resolved beyond the ones it
\* started with
Placed == {k \in 1..Len(log.collisions) : k > Len(log.pre_obstacles)}
\* the obstacles of the last step that hit a racer
Consumed == {k \in 1..Len(log.collisions) : log.collisions[k].hit # None}
\* the apply_hit calls of the last step made for a Banana
BananaCalls == {k \in 1..Len(log.hits) : log.hits[k].item = BANANA}

====
